---- MODULE Spec2Model ----
(***************************************************************************)
(* A model of gptj.cpp: the generation driver (gptj_generate), the         *)
(* evaluator's bookkeeping (gptj_eval), the sampler                        *)
(* (gpt_sample_top_k_top_p), the tokenizer (gpt_tokenize) and the model    *)
(* loader (gptj_model_load / gptj_load_model).                             *)
(*                                                                         *)
(* Four specifications share the variables:                                *)
(*   Spec        one gptj_generate call on a loaded model                  *)
(*   SpecLoad    one gptj_load_model call followed by gpt_tokenize calls   *)
(*   SpecSample  one gpt_sample_top_k_top_p call                           *)
(*   SpecArena   two gptj_generate calls and gptj_eval's static buffer     *)
(* The variables a specification does not use stay at their idle values.   *)
(***************************************************************************)
EXTENDS Integers, Sequences, FiniteSets, TLC

VARIABLES
  \* ---- gptj_generate: parameters and model hyperparameters
  n_ctx,            \* model.hparams.n_ctx
  n_predict_arg,    \* params.n_predict as the caller passed it
  n_predict,        \* params.n_predict (overwritten at line 891)
  n_batch,          \* params.n_batch
  params_top_k,     \* params.top_k
  embd_inp,         \* the tokenized prompt
  \* ---- gptj_generate: locals
  pc,               \* position in gptj_generate
  i,                \* loop counter (int)
  n_past,
  embd,
  processing_input,
  result,           \* "none" while running, "true"/"false" once returned
  \* ---- gptj_eval: statics and the driver's mem_per_token
  mem_per_token,
  buf_size,         \* static buf_size, in MiB
  buf,              \* static buf: "valid" or "null"
  \* ---- observation of the calls gptj_generate issues
  eval_log,         \* evaluator calls: [n_past, toks, measure, prefill]
  sampled,          \* ids returned by the sampler, in order
  sample_log,       \* sampler calls: [top_k, n_logits]
  cb_log,           \* texts passed to the callback, in order
  cb_stop,          \* the callback has returned false
  \* ---- gpt_sample_top_k_top_p: arguments and result
  s_pc,             \* "idle", "call", "done"
  s_logits,         \* logits[0..n_logits-1], as a sequence
  s_top_k,
  s_top_p,          \* top_p, in thousandths
  s_temp,           \* temp, as a fraction <<numerator, denominator>>
  s_id,             \* the id returned
  \* ---- gptj_load_model / gptj_model_load
  l_pc,             \* position in gptj_model_load
  l_err,            \* which failure gptj_model_load reported on stderr
  magic,            \* the four bytes read at line 333
  hp_n_vocab,       \* model.hparams.n_vocab
  hp_ftype,         \* model.hparams.ftype
  token_to_id,      \* vocab.token_to_id
  id_to_token,      \* vocab.id_to_token
  model_ctx,        \* model.ctx: "null" or "init" (ggml context created)
  tensors,          \* names registered in model.tensors (each one allocated)
  memory_kv,        \* memory_k and memory_v are allocated
  copied,           \* names of the tensors that received payload bytes
  rec,              \* the header of the tensor record read last
  payload_read,     \* the records whose payload was read into a tensor
  n_records,        \* tensor records read so far
  ctx_obj,          \* the gptj_model_context: "none", "live", "deleted"
  handle,           \* gptj_load_model's result: "none", "null", "ctx"
  \* ---- gpt_tokenize
  t_text,           \* the text tokenized last
  t_tokens,         \* gpt_tokenize's result for it
  \* ---- gptj_eval called by two gptj_generate calls (runs 1 and 2)
  heap,             \* the blocks malloc/realloc returned: [size, live]
  arena_buf,        \* static buf: a block of heap, or 0 (nullptr)
  arena_buf_size,   \* static buf_size, in MiB
  run_handle,       \* the model handle each run was called with
  run_pc,           \* each run's position in gptj_generate / gptj_eval
  run_N,            \* embd_inp.size() of the run's current evaluator call
  run_mem,          \* the run's mem_per_token
  run_ctx0,         \* the arena of the run's ctx0: [block, size, owned, open]
  run_log,          \* the run's evaluator calls: [N, ok]
  run_kv,           \* cache positions the run's calls have written
  run_result        \* "none", "true", "false"

drvVars == <<n_ctx, n_predict_arg, n_predict, n_batch, params_top_k, embd_inp, pc, i,
             n_past, embd, processing_input, result, mem_per_token, buf_size,
             buf, eval_log, sampled, sample_log, cb_log, cb_stop>>

smpVars == <<s_pc, s_logits, s_top_k, s_top_p, s_temp, s_id>>

ldVars == <<l_pc, l_err, magic, hp_n_vocab, hp_ftype, token_to_id, id_to_token,
            model_ctx, tensors, memory_kv, copied, rec, payload_read,
            n_records, ctx_obj, handle, t_text, t_tokens>>

arVars == <<heap, arena_buf, arena_buf_size, run_handle, run_pc, run_N, run_mem,
            run_ctx0, run_log, run_kv, run_result>>

vars == <<drvVars, smpVars, ldVars, arVars>>

\* The idle values of the variables a specification does not use.
DrvIdle ==
  /\ n_ctx = 0 /\ n_predict_arg = 0 /\ n_predict = 0 /\ n_batch = 0
  /\ params_top_k = 0
  /\ embd_inp = <<>> /\ pc = "idle" /\ i = 0 /\ n_past = 0 /\ embd = <<>>
  /\ processing_input = TRUE /\ result = "none" /\ mem_per_token = 0
  /\ buf_size = 0 /\ buf = "valid" /\ eval_log = <<>> /\ sampled = <<>>
  /\ sample_log = <<>>
  /\ cb_log = <<>> /\ cb_stop = FALSE

SmpIdle ==
  /\ s_pc = "idle" /\ s_logits = <<>> /\ s_top_k = 0 /\ s_top_p = 0
  /\ s_temp = <<1, 1>> /\ s_id = 0

EmptyMap == [x \in {} |-> 0]

\* The value of rec before a record has been read.
NoRecord == [name |-> "", nelements_ok |-> FALSE, shape_ok |-> FALSE, size_ok |-> FALSE]

LdIdle ==
  /\ l_pc = "idle" /\ l_err = "none" /\ magic = 0 /\ hp_n_vocab = 0 /\ hp_ftype = 0
  /\ token_to_id = EmptyMap /\ id_to_token = EmptyMap /\ model_ctx = "null"
  /\ tensors = {} /\ memory_kv = FALSE /\ copied = {} /\ n_records = 0
  /\ rec = NoRecord /\ payload_read = <<>>
  /\ ctx_obj = "none" /\ handle = "none" /\ t_text = <<>> /\ t_tokens = <<>>

Runs == {1, 2}

\* A run that is not inside an evaluator call has no ctx0.
NoCtx == [block |-> 0, size |-> 0, owned |-> FALSE, open |-> FALSE]

ArIdle ==
  /\ heap = <<>> /\ arena_buf = 0 /\ arena_buf_size = 0
  /\ run_handle = [r \in Runs |-> 0]
  /\ run_pc = [r \in Runs |-> "idle"]
  /\ run_N = [r \in Runs |-> 0]
  /\ run_mem = [r \in Runs |-> 0]
  /\ run_ctx0 = [r \in Runs |-> NoCtx]
  /\ run_log = [r \in Runs |-> <<>>]
  /\ run_kv = [r \in Runs |-> 0]
  /\ run_result = [r \in Runs |-> "none"]

----------------------------------------------------------------------------
(* Bounds of the model *)

MaxPrompt == 5      \* longest tokenized prompt
MaxCtx == 5         \* largest n_ctx
MaxPredict == 3     \* largest n_predict the caller passes
MaxBatch == 2       \* largest n_batch the caller passes
MaxOverrun == 1     \* cache positions past n_ctx that are still followed

----------------------------------------------------------------------------
(* Program constants *)

END_OF_TEXT == 50256      \* the literal end-of-text id
BUF_SIZE_INIT == 256      \* 256u * 1024 * 1024 bytes, in MiB
N_VOCAB == 50400          \* hparams.n_vocab of the loaded model (GPT-J 6B)
N_LAYER == 28             \* hparams.n_layer of the loaded model
TOP_K_DEFAULT == 40       \* gptj_params.top_k as the header initialises it

\* size_t arithmetic wraps. TLC's integers are 32 bits wide, so the 2^64 of
\* the build is scaled to 2^30; every magnitude of the model is below 2^8, so
\* the wrapped comparisons come out as they do modulo 2^64.
SizeMod == 2^30
ToSizeT(x) == x % SizeMod

Min(a, b) == IF a < b THEN a ELSE b
Max(a, b) == IF a > b THEN a ELSE b

\* The ids fed to the measurement call at line 897.
MeasureTokens == <<0, 1, 2, 3>>

\* Ids the prompt and the sampler range over (a slice of [0, n_vocab)).
PromptIds == {0, END_OF_TEXT}
SampleIds == {0, 1, END_OF_TEXT}

\* An id outside the vocabulary, for the outcomes of undefined behaviour.
GarbageId == 0 - 1

\* vocab.id_to_token[id] of the loaded vocabulary, for the ids above; an id
\* the map does not hold is inserted with an empty text.
IdToToken(id) ==
  CASE id = 0 -> "hi"
    [] id = 1 -> " there"
    [] id = END_OF_TEXT -> "<|endoftext|>"
    [] OTHER -> ""

SeqsUpTo(S, n) == UNION {[1..k -> S] : k \in 0..n}

----------------------------------------------------------------------------
(* gptj_eval: scratch buffer and KV-cache bookkeeping *)

\* line 634, on any mem_per_token and buf_size
MustGrow(mem, N, size) == mem > 0 /\ mem * N > size

\* line 636, on any mem_per_token
BufSizeNew(mem, N) == (11 * (mem * N)) \div 10

\* line 634: the scratch buffer must grow for N input tokens
NeedGrow(N) == MustGrow(mem_per_token, N, buf_size)

\* line 636: 1.1 * (mem_per_token * N), truncated to size_t
GrownSize(N) == BufSizeNew(mem_per_token, N)

\* lines 690-693, 709, 730: positions [np, np + N) of every layer are written
\* and [0, np + N) read; they lie in the layer's n_ctx slots iff this holds.
InCache(np, N) == np + N <= n_ctx

\* lines 690 and 696: the elements of memory_k one call writes, in units of
\* n_embd elements: layer il, position p lies at il * n_ctx + p (memory_v is
\* written at the same positions, transposed).
KSlots(np, N) ==
  {il * n_ctx + p : il \in 0..(N_LAYER - 1), p \in np..(np + N - 1)}

\* One evaluator call as the driver issued it: measure marks the call of
\* line 897, prefill the calls made while processing_input is still true.
EvalRecord(np, toks, m, pf) ==
  [n_past |-> np, toks |-> toks, measure |-> m, prefill |-> pf]

----------------------------------------------------------------------------
(* gptj_generate *)

P == Len(embd_inp)

\* line 891
ResolvedPredict(np, nctx, plen) == Min(np, nctx - plen)

\* line 900: i < embd_inp.size() + params.n_predict, compared as size_t
LoopLimit == ToSizeT(P + n_predict)
LoopCond == ToSizeT(i) < LoopLimit

\* line 940: embd.size() > params.n_batch, compared as size_t
BatchFull(len) == len > ToSizeT(n_batch)

\* lines 937-944
RECURSIVE PrefillPush(_, _)
PrefillPush(k, acc) ==
  IF k < P
    THEN LET acc2 == Append(acc, embd_inp[k + 1])
         IN IF BatchFull(Len(acc2)) THEN acc2 ELSE PrefillPush(k + 1, acc2)
    ELSE acc

\* The values ggml_used_mem(ctx0) / N takes at line 830, in MiB per token.
MemPerTokenSet == {16, 100}

\* The values of params.top_k the callers pass: the default, and one more
\* than the vocabulary size.
TopKSet == {TOP_K_DEFAULT, N_VOCAB + 1}

\* The calls range over n_ctx in 4..MaxCtx (the measurement call of line 897
\* feeds four tokens), n_predict in -2..MaxPredict and n_batch in
\* -1..MaxBatch, the largest values first.
Init ==
  /\ n_ctx \in 4..MaxCtx
  /\ \E k \in 0..(MaxPredict + 2) : n_predict_arg = MaxPredict - k
  /\ n_predict = n_predict_arg
  /\ \E k \in 0..(MaxBatch + 1) : n_batch = MaxBatch - k
  /\ params_top_k \in TopKSet
  /\ embd_inp \in SeqsUpTo(PromptIds, MaxPrompt)
  /\ pc = "begin"
  /\ i = 0
  /\ n_past = 0
  /\ embd = <<>>
  /\ processing_input = TRUE
  /\ result = "none"
  /\ mem_per_token = 0
  /\ buf_size = BUF_SIZE_INIT
  /\ buf = "valid"
  /\ eval_log = <<>>
  /\ sampled = <<>>
  /\ sample_log = <<>>
  /\ cb_log = <<>>
  /\ cb_stop = FALSE
  /\ SmpIdle
  /\ LdIdle
  /\ ArIdle

Return(r) ==
  /\ pc' = "done"
  /\ result' = r

\* lines 870-899: tokenize, resolve n_predict, measure the memory per token
Begin ==
  /\ pc = "begin"
  /\ n_predict' = ResolvedPredict(n_predict_arg, n_ctx, P)
  /\ eval_log' = Append(eval_log, EvalRecord(0, MeasureTokens, TRUE, FALSE))
  /\ \E m \in MemPerTokenSet : mem_per_token' = m
  /\ pc' = "loop"
  /\ UNCHANGED <<smpVars, ldVars, arVars, params_top_k, n_ctx, n_predict_arg, n_batch, embd_inp, i, n_past, embd,
                 processing_input, result, buf_size, buf, sampled, sample_log, cb_log, cb_stop>>

\* line 900, condition false; line 966
LoopExit ==
  /\ pc = "loop"
  /\ ~LoopCond
  /\ Return("true")
  /\ UNCHANGED <<smpVars, ldVars, arVars, params_top_k, n_ctx, n_predict_arg, n_predict, n_batch, embd_inp, i, n_past,
                 embd, processing_input, mem_per_token, buf_size, buf,
                 eval_log, sampled, sample_log, cb_log, cb_stop>>

\* lines 903, 912-913 with embd empty: no evaluator call
PredictSkip ==
  /\ pc = "loop"
  /\ LoopCond
  /\ embd = <<>>
  /\ n_past' = n_past + Len(embd)
  /\ embd' = <<>>
  /\ pc' = "branch"
  /\ UNCHANGED <<smpVars, ldVars, arVars, params_top_k, n_ctx, n_predict_arg, n_predict, n_batch, embd_inp, i,
                 processing_input, result, mem_per_token, buf_size, buf,
                 eval_log, sampled, sample_log, cb_log, cb_stop>>

\* A driver that advances the cache position by one per evaluator call.
AdvancePast_one(np, N) == np + 1

\* A driver that never advances the cache position.
AdvancePast_none(np, N) == np

\* n_past after a successful evaluator call, line 912
AdvancePast(np, N) == np + N

\* lines 903-913: gptj_eval succeeds
Predict ==
  /\ pc = "loop"
  /\ LoopCond
  /\ embd # <<>>
  /\ n_past + Len(embd) <= n_ctx + MaxOverrun
  /\ IF NeedGrow(Len(embd))
       THEN buf_size' = GrownSize(Len(embd)) /\ buf' = "valid"
       ELSE UNCHANGED <<buf_size, buf>>
  /\ eval_log' = Append(eval_log, EvalRecord(n_past, embd, FALSE, processing_input))
  /\ n_past' = AdvancePast(n_past, Len(embd))
  /\ embd' = <<>>
  /\ pc' = "branch"
  /\ UNCHANGED <<smpVars, ldVars, arVars, params_top_k, n_ctx, n_predict_arg, n_predict, n_batch, embd_inp, i,
                 processing_input, result, mem_per_token, sampled, sample_log, cb_log, cb_stop>>

\* lines 634-645, 905-909: realloc fails, gptj_eval and gptj_generate return false
PredictFail ==
  /\ pc = "loop"
  /\ LoopCond
  /\ embd # <<>>
  /\ NeedGrow(Len(embd))
  /\ buf_size' = GrownSize(Len(embd))
  /\ buf' = "null"
  /\ Return("false")
  /\ UNCHANGED <<smpVars, ldVars, arVars, params_top_k, n_ctx, n_predict_arg, n_predict, n_batch, embd_inp, i, n_past,
                 embd, processing_input, mem_per_token, eval_log, sampled, sample_log,
                 cb_log, cb_stop>>

\* An evaluator call that addresses cache positions past n_ctx is undefined
\* behaviour: the build either goes on (Predict) or crashes.
PredictCrash ==
  /\ pc = "loop"
  /\ LoopCond
  /\ embd # <<>>
  /\ ~InCache(n_past, Len(embd))
  /\ IF NeedGrow(Len(embd))
       THEN buf_size' = GrownSize(Len(embd)) /\ buf' = "valid"
       ELSE UNCHANGED <<buf_size, buf>>
  /\ eval_log' = Append(eval_log, EvalRecord(n_past, embd, FALSE, processing_input))
  /\ pc' = "crashed"
  /\ UNCHANGED <<smpVars, ldVars, arVars, params_top_k, n_ctx, n_predict_arg, n_predict, n_batch, embd_inp, i, n_past,
                 embd, processing_input, result, mem_per_token, sampled, sample_log,
                 cb_log, cb_stop>>

\* A driver that feeds the initial value of id (line 925) instead of the sample.
PushSampled_zero(e, id) == Append(e, 0)

\* line 932: embd.push_back(id)
PushSampled(e, id) == Append(e, id)

\* line 917: the top_k the driver hands to the sampler
SamplerTopK(tk) == tk

\* line 122 via line 921: the sampler's n_logits is the vocabulary size
SamplerNLogits == N_VOCAB

\* One sampler call as the driver issued it.
SampleRecord(tk, nl) == [top_k |-> tk, n_logits |-> nl]

\* lines 136-144: logits_id.begin() + top_k lies within the vector
TopKInRange(tk, nl) == 1 <= tk /\ tk <= nl

\* The ids a sampler call of the driver returns to it. With top_k outside
\* [1, n_logits] the partial sort runs past the end of logits_id, which is
\* undefined: the call still returns an id of the vocabulary (here), or the
\* run faults on the stray memory or on an id outside the vocabulary
\* (SampleCrash).
SampleOutcomes(tk, nl) == SampleIds

\* lines 915-933: the sampler returns id
Sample ==
  /\ pc = "branch"
  /\ i >= P
  /\ sample_log' = Append(sample_log, SampleRecord(SamplerTopK(params_top_k), SamplerNLogits))
  /\ \E id \in SampleOutcomes(SamplerTopK(params_top_k), SamplerNLogits) :
       /\ sampled' = Append(sampled, id)
       /\ embd' = PushSampled(embd, id)
  /\ processing_input' = FALSE
  /\ pc' = "emit"
  /\ UNCHANGED <<smpVars, ldVars, arVars, params_top_k, n_ctx, n_predict_arg, n_predict, n_batch, embd_inp, i, n_past,
                 result, mem_per_token, buf_size, buf, eval_log, cb_log, cb_stop>>

\* lines 136-144 with top_k outside [1, n_logits]: the run faults
SampleCrash ==
  /\ pc = "branch"
  /\ i >= P
  /\ ~TopKInRange(SamplerTopK(params_top_k), SamplerNLogits)
  /\ sample_log' = Append(sample_log, SampleRecord(SamplerTopK(params_top_k), SamplerNLogits))
  /\ processing_input' = FALSE
  /\ pc' = "crashed"
  /\ UNCHANGED <<smpVars, ldVars, arVars, params_top_k, n_ctx, n_predict_arg, n_predict, n_batch, embd_inp, i, n_past,
                 embd, result, mem_per_token, buf_size, buf, eval_log, sampled,
                 cb_log, cb_stop>>

\* lines 934-946
Prefill ==
  /\ pc = "branch"
  /\ i < P
  /\ embd' = PrefillPush(i, embd)
  /\ i' = i + Len(embd') - 1
  /\ pc' = "emit"
  /\ UNCHANGED <<smpVars, ldVars, arVars, params_top_k, n_ctx, n_predict_arg, n_predict, n_batch, embd_inp, n_past,
                 processing_input, result, mem_per_token, buf_size, buf,
                 eval_log, sampled, sample_log, cb_log, cb_stop>>

\* line 948 with processing_input still true
EmitSkip ==
  /\ pc = "emit"
  /\ processing_input
  /\ pc' = "tail"
  /\ UNCHANGED <<smpVars, ldVars, arVars, params_top_k, n_ctx, n_predict_arg, n_predict, n_batch, embd_inp, i, n_past,
                 embd, processing_input, result, mem_per_token, buf_size, buf,
                 eval_log, sampled, sample_log, cb_log, cb_stop>>

\* A driver that tests the callback first: id == 50256 no longer short-circuits.
CallsCallback_always(id) == TRUE

\* line 952, left operand of ||: the token is passed to the callback only
\* when it is not the end-of-text id
CallsCallback(id) == id # END_OF_TEXT

\* lines 950-955 with id == 50256: return true, the callback is not invoked
EmitEot ==
  /\ pc = "emit"
  /\ ~processing_input
  /\ ~CallsCallback(embd[1])
  /\ Return("true")
  /\ UNCHANGED <<smpVars, ldVars, arVars, params_top_k, n_ctx, n_predict_arg, n_predict, n_batch, embd_inp, i, n_past,
                 embd, processing_input, mem_per_token, buf_size, buf,
                 eval_log, sampled, sample_log, cb_log, cb_stop>>

\* A driver that ignores the callback's return value.
CallbackStops_never(ret) == FALSE

\* line 952, right operand of ||: !(*callback)(...) ends the run
CallbackStops(ret) == ~ret

\* line 952: vocab.id_to_token[id].c_str()
CallbackArg(id) == IdToToken(id)

\* lines 950-955: the callback is invoked and returns ret
Callback ==
  /\ pc = "emit"
  /\ ~processing_input
  /\ CallsCallback(embd[1])
  /\ cb_log' = Append(cb_log, CallbackArg(embd[1]))
  /\ \E ret \in BOOLEAN :
       /\ cb_stop' = (cb_stop \/ ~ret)
       /\ IF CallbackStops(ret)
            THEN Return("true")
            ELSE pc' = "tail" /\ UNCHANGED result
  /\ UNCHANGED <<smpVars, ldVars, arVars, params_top_k, n_ctx, n_predict_arg, n_predict, n_batch, embd_inp, i, n_past,
                 embd, processing_input, mem_per_token, buf_size, buf,
                 eval_log, sampled, sample_log>>

\* lines 960-963: break, then line 966
TailBreak ==
  /\ pc = "tail"
  /\ embd[Len(embd)] = END_OF_TEXT
  /\ Return("true")
  /\ UNCHANGED <<smpVars, ldVars, arVars, params_top_k, n_ctx, n_predict_arg, n_predict, n_batch, embd_inp, i, n_past,
                 embd, processing_input, mem_per_token, buf_size, buf,
                 eval_log, sampled, sample_log, cb_log, cb_stop>>

\* line 900: i++
TailNext ==
  /\ pc = "tail"
  /\ embd[Len(embd)] # END_OF_TEXT
  /\ i' = i + 1
  /\ pc' = "loop"
  /\ UNCHANGED <<smpVars, ldVars, arVars, params_top_k, n_ctx, n_predict_arg, n_predict, n_batch, embd_inp, n_past,
                 embd, processing_input, result, mem_per_token, buf_size, buf,
                 eval_log, sampled, sample_log, cb_log, cb_stop>>

Next ==
  \/ Begin
  \/ LoopExit
  \/ PredictSkip
  \/ Predict
  \/ PredictFail
  \/ PredictCrash
  \/ Sample
  \/ SampleCrash
  \/ Prefill
  \/ EmitSkip
  \/ EmitEot
  \/ Callback
  \/ TailBreak
  \/ TailNext

Spec == Init /\ [][Next]_vars

----------------------------------------------------------------------------
(* gpt_sample_top_k_top_p *)

MaxVocab == 3       \* largest n_logits of a sampler call

\* Scores, temperatures and top_p values of the sampler calls. A temperature
\* is a fraction <<numerator, denominator>>; top_p is in thousandths.
ScoreSet == {-1, 0, 1, 2}
TempSet == {<<-1, 1>>, <<0, 1>>, <<1, 2>>, <<1, 1>>, <<2, 1>>}
TopPSet == {0, 500, 900, 1000}

Abs(x) == IF x < 0 THEN -x ELSE x
Sgn(x) == IF x < 0 THEN -1 ELSE IF x > 0 THEN 1 ELSE 0

\* lines 128-131: logits[i] * (1.0 / temp) in IEEE arithmetic. A finite
\* product is the fraction n/d with d > 0; temp = 0 makes the scale +inf and
\* the product +inf, -inf or (for a zero logit) NaN.
Scaled(logit, temp) ==
  IF temp[1] = 0
    THEN [kind |-> IF logit > 0 THEN "pinf" ELSE IF logit < 0 THEN "ninf" ELSE "nan",
          n |-> 0, d |-> 1]
    ELSE [kind |-> "fin", n |-> logit * temp[2] * Sgn(temp[1]), d |-> Abs(temp[1])]

\* A comparator written with < : the sort is ascending.
Greater_reversed(a, b) ==
  a.kind = "fin" /\ b.kind = "fin" /\ a.n * b.d < b.n * a.d

\* line 141: a.first > b.first on doubles
Greater(a, b) ==
  CASE a.kind = "nan" \/ b.kind = "nan" -> FALSE
    [] a.kind = "pinf" -> b.kind # "pinf"
    [] a.kind = "ninf" -> FALSE
    [] b.kind = "pinf" -> FALSE
    [] b.kind = "ninf" -> TRUE
    [] OTHER -> a.n * b.d > b.n * a.d

\* lines 124-133: logits_id, indexed by id + 1
LogitsId(logits, temp) == [k \in 1..Len(logits) |-> Scaled(logits[k], temp)]

InjSeqs(n, k) ==
  {q \in [1..k -> 1..n] : \A a, b \in 1..k : a # b => q[a] # q[b]}

HasNaN(lid) == \E k \in 1..Len(lid) : lid[k].kind = "nan"

\* lines 136-144: the first top_k entries after std::partial_sort and resize,
\* as sequences of positions of logits_id. The sort is not stable, so equal
\* scores come in any order. A NaN score breaks the comparator's strict weak
\* ordering: the heap operations then leave any top_k entries in any order.
TopK(lid, top_k) ==
  IF HasNaN(lid)
    THEN InjSeqs(Len(lid), top_k)
    ELSE {q \in InjSeqs(Len(lid), top_k) :
            /\ \A a, b \in 1..top_k : a < b => ~Greater(lid[q[b]], lid[q[a]])
            /\ \A j \in 1..Len(lid) :
                 (\A a \in 1..top_k : q[a] # j) =>
                    \A a \in 1..top_k : ~Greater(lid[j], lid[q[a]])}

\* exp(-h/2) in thousandths, for h >= 0 (line 159: exp(kv.first - maxl))
ExpTable == <<1000, 607, 368, 223, 135, 82, 50, 30, 18, 11, 7, 4, 2, 2, 1, 1>>
ExpMilli(h) == IF h + 1 <= Len(ExpTable) THEN ExpTable[h + 1] ELSE 1

\* kv.first in half units (the denominators of TempSet divide 2)
Halves(v) == (2 * v.n) \div v.d

\* lines 146-162: the unnormalised probabilities of the selected entries;
\* the first selected entry holds maxl because the prefix is sorted.
Weights(lid, q) ==
  [a \in 1..Len(q) |-> ExpMilli(Halves(lid[q[1]]) - Halves(lid[q[a]]))]

RECURSIVE SumTo(_, _)
SumTo(w, k) == IF k = 0 THEN 0 ELSE w[k] + SumTo(w, k - 1)

\* lines 170-183: the length the candidate list is cut to. probs[i] is
\* w[i] / sum, so cumsum >= top_p reads 1000 * SumTo(w, i) >= top_p * sum.
RECURSIVE CutAt(_, _, _)
CutAt(w, top_p, k) ==
  IF k > Len(w) THEN Len(w)
  ELSE IF 1000 * SumTo(w, k) >= top_p * SumTo(w, Len(w)) THEN k
  ELSE CutAt(w, top_p, k + 1)

Truncated(w, top_p) == IF top_p < 1000 THEN CutAt(w, top_p, 1) ELSE Len(w)

AllFinite(lid) == \A k \in 1..Len(lid) : lid[k].kind = "fin"

\* The ids one call can return. The draw of line 193 is any index whose
\* probability is positive; with an infinite score every probability is NaN
\* (inf - inf) and the draw is any index of the list. top_k outside
\* [1, n_logits] moves an iterator past the end of logits_id or indexes an
\* empty list: undefined, any id of the vocabulary or a garbage value.
SampleResults(logits, top_k, top_p, temp) ==
  LET lid == LogitsId(logits, temp)
      n == Len(logits)
  IN IF top_k < 1 \/ top_k > n
       THEN (0..(n - 1)) \cup {GarbageId}
     ELSE IF ~AllFinite(lid)
       THEN UNION {{q[a] - 1 : a \in 1..top_k} : q \in TopK(lid, top_k)}
     ELSE UNION {{q[a] - 1 : a \in 1..Truncated(Weights(lid, q), top_p)} :
                   q \in TopK(lid, top_k)}

InitSample ==
  /\ DrvIdle
  /\ LdIdle
  /\ ArIdle
  /\ s_pc = "call"
  /\ s_logits \in UNION {[1..n -> ScoreSet] : n \in 1..MaxVocab}
  /\ s_top_k \in 1..Len(s_logits)
  /\ s_top_p \in TopPSet
  /\ s_temp \in TempSet
  /\ s_id = 0

SamplerCall ==
  /\ s_pc = "call"
  /\ s_id' \in SampleResults(s_logits, s_top_k, s_top_p, s_temp)
  /\ s_pc' = "done"
  /\ UNCHANGED <<drvVars, ldVars, arVars, s_logits, s_top_k, s_top_p, s_temp>>

NextSample == SamplerCall

SpecSample == InitSample /\ [][NextSample]_vars

----------------------------------------------------------------------------
(* gpt_tokenize *)

\* A text is a sequence of one-character strings.
Letters == {"a", "b", "d", "e", "l", "m", "r", "s", "t", "v"}
Digits == {"1", "2"}
Spaces == {" ", "\n"}

\* [[:alpha:]], [[:digit:]], \s and [^\s[:alpha:][:digit:]] of line 53
Class(c) ==
  CASE c \in Letters -> "alpha"
    [] c \in Digits -> "digit"
    [] c \in Spaces -> "space"
    [] OTHER -> "other"

\* The number of characters of class cls in a row from position k on.
RECURSIVE RunLen(_, _, _)
RunLen(str, k, cls) ==
  IF k <= Len(str) /\ Class(str[k]) = cls THEN 1 + RunLen(str, k + 1, cls) ELSE 0

\* 's|'t|'re|'ve|'m|'ll|'d at the start of str: the match length, 0 if none
Contraction(str) ==
  IF Len(str) >= 2 /\ str[1] = "'" /\ str[2] \in {"s", "t", "m", "d"} THEN 2
  ELSE IF Len(str) >= 3 /\ str[1] = "'"
          /\ <<str[2], str[3]>> \in {<<"r", "e">>, <<"v", "e">>, <<"l", "l">>} THEN 3
  ELSE 0

\* " ?[cls]+" at the start of str: the optional space is taken when a
\* character of the class follows it; 0 if no match
OptSpaceRun(str, cls) ==
  IF Len(str) >= 2 /\ str[1] = " " /\ Class(str[2]) = cls
    THEN 1 + RunLen(str, 2, cls)
  ELSE IF Class(str[1]) = cls THEN RunLen(str, 1, cls)
  ELSE 0

\* "\s+(?!\S)" at the start of str: the whole whitespace run at the end of
\* the text, else the run less its last character (which must stay >= 1)
SpaceNotBeforeWord(str) ==
  LET r == RunLen(str, 1, "space")
  IN IF r = 0 THEN 0
     ELSE IF r = Len(str) THEN r
     ELSE IF r >= 2 THEN r - 1
     ELSE 0

\* line 53: the length of the match of the pattern at the start of a
\* non-empty str; the alternatives are tried in the order written. Every
\* character belongs to one of the four classes, so a match always starts at
\* the first character and std::regex_search skips nothing.
MatchLen(str) ==
  IF Contraction(str) > 0 THEN Contraction(str)
  ELSE IF OptSpaceRun(str, "alpha") > 0 THEN OptSpaceRun(str, "alpha")
  ELSE IF OptSpaceRun(str, "digit") > 0 THEN OptSpaceRun(str, "digit")
  ELSE IF OptSpaceRun(str, "other") > 0 THEN OptSpaceRun(str, "other")
  ELSE IF SpaceNotBeforeWord(str) > 0 THEN SpaceNotBeforeWord(str)
  ELSE RunLen(str, 1, "space")

\* lines 58-65: the words of the text
RECURSIVE SplitWords(_)
SplitWords(str) ==
  IF str = <<>> THEN <<>>
  ELSE LET m == MatchLen(str)
       IN <<SubSeq(str, 1, m)>> \o SplitWords(SubSeq(str, m + 1, Len(str)))

\* A scan that walks j upwards: the shortest vocabulary entry wins.
RECURSIVE ShortestFrom(_, _, _, _)
ShortestFrom(t2i, word, wi, j) ==
  IF j > Len(word) THEN wi
  ELSE IF SubSeq(word, wi + 1, j) \in DOMAIN t2i THEN j
  ELSE ShortestFrom(t2i, word, wi, j + 1)

LongestFrom_shortest(t2i, word, wi, j) == ShortestFrom(t2i, word, wi, wi + 1)

\* lines 79-90: the largest j > i with word.substr(i, j - i) in the
\* vocabulary, or i when there is none (wi is the i of the source; i and j count from 0)
RECURSIVE LongestFrom(_, _, _, _)
LongestFrom(t2i, word, wi, j) ==
  IF j > wi /\ SubSeq(word, wi + 1, j) \notin DOMAIN t2i
    THEN LongestFrom(t2i, word, wi, j - 1)
    ELSE j

\* lines 95-107: the block entered when j == i. It is entered when nothing
\* matched and also right after a match that left i = j < n: the character
\* at i is then emitted as a one-character token, or dropped, and skipped.
SingleChar(t2i, word, wi, acc) ==
  IF <<word[wi + 1]>> \in DOMAIN t2i
    THEN Append(acc, t2i[<<word[wi + 1]>>])
    ELSE acc

\* lines 75-108
RECURSIVE TokenizeWord(_, _, _, _)
TokenizeWord(t2i, word, wi, acc) ==
  IF wi >= Len(word) THEN acc
  ELSE LET j == LongestFrom(t2i, word, wi, Len(word))
       IN IF j > wi
            THEN LET acc2 == Append(acc, t2i[SubSeq(word, wi + 1, j)])
                 IN IF j = Len(word) THEN acc2
                    ELSE TokenizeWord(t2i, word, j + 1, SingleChar(t2i, word, j, acc2))
            ELSE TokenizeWord(t2i, word, wi + 1, SingleChar(t2i, word, wi, acc))

RECURSIVE TokenizeWords(_, _)
TokenizeWords(t2i, words) ==
  IF words = <<>> THEN <<>>
  ELSE TokenizeWord(t2i, Head(words), 0, <<>>) \o TokenizeWords(t2i, Tail(words))

\* lines 46-112
gpt_tokenize(t2i, text) == TokenizeWords(t2i, SplitWords(text))

----------------------------------------------------------------------------
(* gptj_load_model, gptj_model_load *)

MaxWords == 2       \* largest vocabulary of a model file
MaxRecords == 2     \* most tensor records of a model file

GGML_MAGIC == 1734831468    \* 0x67676d6c

\* The token texts a model file can hold.
WordSet ==
  { <<>>, <<"a">>, <<" ", "a">>, <<"a", "b">>, <<"a", "1">>, <<"'", "s">>,
    <<" ">>, <<" ", " ">>, <<"<", "|">>, <<"<", "|", "e", "|", ">">> }

\* Texts passed to gpt_tokenize besides the token texts themselves.
PromptSet ==
  { <<"a", " ", "a">>, <<"a", "b", "'", "s">>, <<" ", " ", "a", "1">>,
    <<"a", "b", "a">>, <<" ", "1", "2", "\n">> }

\* lines 213-257: ftype -> wtype; "COUNT" is GGML_TYPE_COUNT (invalid)
ggml_ftype_to_ggml_type(ftype) ==
  CASE ftype = 0 -> "F32"
    [] ftype = 1 -> "F16"
    [] ftype = 2 -> "Q4_0"
    [] ftype = 3 -> "Q4_1"
    [] ftype = 5 -> "Q4_2"
    [] ftype = 7 -> "Q8_0"
    [] ftype = 8 -> "Q5_0"
    [] ftype = 9 -> "Q5_1"
    [] OTHER -> "COUNT"

FtypeSet == {0, 1, 4, 6}

\* lines 467-508: the names registered for a model of one layer
TensorNames ==
  { "transformer.wte.weight", "transformer.ln_f.weight", "transformer.ln_f.bias",
    "lm_head.weight", "lm_head.bias",
    "transformer.h.0.ln_1.weight", "transformer.h.0.ln_1.bias",
    "transformer.h.0.attn.q_proj.weight", "transformer.h.0.attn.k_proj.weight",
    "transformer.h.0.attn.v_proj.weight", "transformer.h.0.attn.out_proj.weight",
    "transformer.h.0.mlp.fc_in.weight", "transformer.h.0.mlp.fc_in.bias",
    "transformer.h.0.mlp.fc_out.weight", "transformer.h.0.mlp.fc_out.bias" }

\* The tensor records a model file can hold: the name, and whether the
\* element count, the first two dimensions and the byte size agree with the
\* tensor registered under that name.
RecordSet ==
  [name : {"transformer.wte.weight", "lm_head.bias", "transformer.wte.bogus"},
   nelements_ok : BOOLEAN, shape_ok : BOOLEAN, size_ok : BOOLEAN]

\* lines 367-377: the two maps after reading words in file order; a text
\* that occurs twice keeps the last id in token_to_id
TokenToId(words) ==
  [w \in {words[k] : k \in 1..Len(words)} |->
     (CHOOSE k \in 1..Len(words) :
        words[k] = w /\ \A m \in 1..Len(words) : words[m] = w => m <= k) - 1]

IdToTokenMap(words) == [id \in 0..(Len(words) - 1) |-> words[id + 1]]

InitLoad ==
  /\ DrvIdle
  /\ SmpIdle
  /\ ArIdle
  /\ l_pc = "start" /\ l_err = "none" /\ magic = 0 /\ hp_n_vocab = 0 /\ hp_ftype = 0
  /\ token_to_id = EmptyMap /\ id_to_token = EmptyMap /\ model_ctx = "null"
  /\ tensors = {} /\ memory_kv = FALSE /\ copied = {} /\ n_records = 0
  /\ rec = NoRecord /\ payload_read = <<>>
  /\ ctx_obj = "none" /\ handle = "none" /\ t_text = <<>> /\ t_tokens = <<>>

\* lines 851-855: gptj_model_load returned false
LoadFails(why) ==
  /\ l_pc' = "returned"
  /\ l_err' = why
  /\ ctx_obj' = "deleted"
  /\ handle' = "null"

\* lines 850, 323-328
OpenFile ==
  /\ l_pc = "start"
  /\ \E opened \in BOOLEAN :
       IF opened
         THEN l_pc' = "magic" /\ ctx_obj' = "live" /\ UNCHANGED <<l_err, handle>>
         ELSE LoadFails("open")
  /\ UNCHANGED <<drvVars, smpVars, arVars, magic, hp_n_vocab, hp_ftype, token_to_id,
                 id_to_token, model_ctx, tensors, memory_kv, copied, rec, payload_read, n_records,
                 t_text, t_tokens>>

\* A loader that does not compare the magic.
MagicOk_any(m) == TRUE

\* line 334
MagicOk(m) == m = GGML_MAGIC

\* lines 331-339
VerifyMagic ==
  /\ l_pc = "magic"
  /\ \E m \in {GGML_MAGIC, 0} :
       /\ magic' = m
       /\ IF MagicOk(m)
            THEN l_pc' = "hparams" /\ UNCHANGED <<l_err, ctx_obj, handle>>
            ELSE LoadFails("magic")
  /\ UNCHANGED <<drvVars, smpVars, arVars, hp_n_vocab, hp_ftype, token_to_id,
                 id_to_token, model_ctx, tensors, memory_kv, copied, rec, payload_read, n_records,
                 t_text, t_tokens>>

\* lines 342-352
LoadHparams ==
  /\ l_pc = "hparams"
  /\ hp_n_vocab' \in 0..MaxWords
  /\ hp_ftype' \in FtypeSet
  /\ l_pc' = "vocab"
  /\ UNCHANGED <<drvVars, smpVars, arVars, l_err, magic, token_to_id, id_to_token, model_ctx,
                 tensors, memory_kv, copied, rec, payload_read, n_records, ctx_obj, handle,
                 t_text, t_tokens>>

\* lines 355-378
LoadVocab ==
  /\ l_pc = "vocab"
  /\ \E n_vocab \in 0..MaxWords :
       IF n_vocab # hp_n_vocab
         THEN LoadFails("vocab") /\ UNCHANGED <<token_to_id, id_to_token>>
         ELSE \E words \in [1..n_vocab -> WordSet] :
                /\ token_to_id' = TokenToId(words)
                /\ id_to_token' = IdToTokenMap(words)
                /\ l_pc' = "wtype"
                /\ UNCHANGED <<l_err, ctx_obj, handle>>
  /\ UNCHANGED <<drvVars, smpVars, arVars, magic, hp_n_vocab, hp_ftype, model_ctx,
                 tensors, memory_kv, copied, rec, payload_read, n_records, t_text, t_tokens>>

\* lines 382-388
WeightType ==
  /\ l_pc = "wtype"
  /\ IF ggml_ftype_to_ggml_type(hp_ftype) = "COUNT"
       THEN LoadFails("ftype")
       ELSE l_pc' = "init" /\ UNCHANGED <<l_err, ctx_obj, handle>>
  /\ UNCHANGED <<drvVars, smpVars, arVars, magic, hp_n_vocab, hp_ftype, token_to_id,
                 id_to_token, model_ctx, tensors, memory_kv, copied, rec, payload_read, n_records,
                 t_text, t_tokens>>

\* lines 390-445: ggml_init reserves the arena of ctx_size bytes, or fails
CreateContext ==
  /\ l_pc = "init"
  /\ \E ok \in BOOLEAN :
       IF ok
         THEN model_ctx' = "init" /\ l_pc' = "weights" /\ UNCHANGED <<l_err, ctx_obj, handle>>
         ELSE LoadFails("init") /\ UNCHANGED model_ctx
  /\ UNCHANGED <<drvVars, smpVars, arVars, magic, hp_n_vocab, hp_ftype, token_to_id,
                 id_to_token, tensors, memory_kv, copied, rec, payload_read, n_records,
                 t_text, t_tokens>>

\* lines 448-527: allocate and register the weights, allocate the KV cache
PrepareWeights ==
  /\ l_pc = "weights"
  /\ tensors' = TensorNames
  /\ memory_kv' = TRUE
  /\ l_pc' = "records"
  /\ UNCHANGED <<drvVars, smpVars, arVars, l_err, magic, hp_n_vocab, hp_ftype, token_to_id,
                 id_to_token, model_ctx, copied, rec, payload_read, n_records, ctx_obj, handle,
                 t_text, t_tokens>>

\* A loader without the byte-size check of lines 582-587.
RecordAccepted_nosize(r) ==
  /\ r.name \in tensors
  /\ r.nelements_ok
  /\ r.shape_ok

\* lines 560-587: the record passes the four checks
RecordAccepted(r) ==
  /\ r.name \in tensors
  /\ r.nelements_ok
  /\ r.shape_ok
  /\ r.size_ok

\* lines 536-591: one tensor record
LoadTensor ==
  /\ l_pc = "records"
  /\ n_records < MaxRecords
  /\ \E r \in RecordSet :
       /\ rec' = r
       /\ IF RecordAccepted(r)
            THEN /\ copied' = copied \cup {r.name}
                 /\ payload_read' = Append(payload_read, r)
                 /\ n_records' = n_records + 1
                 /\ UNCHANGED <<l_pc, l_err, ctx_obj, handle>>
            ELSE LoadFails("record") /\ UNCHANGED <<copied, payload_read, n_records>>
  /\ UNCHANGED <<drvVars, smpVars, arVars, magic, hp_n_vocab, hp_ftype, token_to_id,
                 id_to_token, model_ctx, tensors, memory_kv, t_text, t_tokens>>

\* lines 544-547, 595-597, 856: end of file, the handle is returned
LoadDone ==
  /\ l_pc = "records"
  /\ l_pc' = "returned"
  /\ handle' = "ctx"
  /\ UNCHANGED <<drvVars, smpVars, arVars, l_err, magic, hp_n_vocab, hp_ftype, token_to_id,
                 id_to_token, model_ctx, tensors, memory_kv, copied, rec, payload_read, n_records,
                 ctx_obj, t_text, t_tokens>>

\* lines 969-972, 889: gpt_tokenize on the loaded vocabulary
Tokenize ==
  /\ l_pc = "returned"
  /\ handle = "ctx"
  /\ \E text \in PromptSet \cup {id_to_token[id] : id \in DOMAIN id_to_token} :
       /\ t_text' = text
       /\ t_tokens' = gpt_tokenize(token_to_id, text)
  /\ l_pc' = "tokenized"
  /\ UNCHANGED <<drvVars, smpVars, arVars, l_err, magic, hp_n_vocab, hp_ftype, token_to_id,
                 id_to_token, model_ctx, tensors, memory_kv, copied, rec, payload_read, n_records,
                 ctx_obj, handle>>

NextLoad ==
  \/ OpenFile
  \/ VerifyMagic
  \/ LoadHparams
  \/ LoadVocab
  \/ WeightType
  \/ CreateContext
  \/ PrepareWeights
  \/ LoadTensor
  \/ LoadDone
  \/ Tokenize

SpecLoad == InitLoad /\ [][NextLoad]_vars

----------------------------------------------------------------------------
(* gptj_eval's static scratch buffer under two gptj_generate calls *)

MaxArenaN == 3      \* largest input of an evaluator call of the loop
MaxArenaCalls == 2  \* evaluator calls of a run after the measurement call

\* The handles the two runs are called with: the same model twice, or two
\* different models.
HandleSet == {[r \in Runs |-> IF r = 1 THEN 1 ELSE h] : h \in {1, 2}}

\* lines 631-632: the statics after their initialisation; the runs are not
\* started yet.
InitArena ==
  /\ DrvIdle
  /\ SmpIdle
  /\ LdIdle
  /\ heap = <<[size |-> BUF_SIZE_INIT, live |-> TRUE]>>
  /\ arena_buf = 1
  /\ arena_buf_size = BUF_SIZE_INIT
  /\ run_handle \in HandleSet
  /\ run_pc = [r \in Runs |-> "idle"]
  /\ run_N = [r \in Runs |-> 0]
  /\ run_mem = [r \in Runs |-> 0]
  /\ run_ctx0 = [r \in Runs |-> NoCtx]
  /\ run_log = [r \in Runs |-> <<>>]
  /\ run_kv = [r \in Runs |-> 0]
  /\ run_result = [r \in Runs |-> "none"]

InFlight(r) == run_pc[r] \notin {"idle", "returned", "crashed"}

\* One evaluator call of a run: its input size and whether it returned true.
CallRecord(N, ok) == [N |-> N, ok |-> ok]

\* lines 865-897: gptj_generate is called and reaches the measurement call.
\* Two calls on the same handle are not made at the same time; calls on
\* different handles are.
StartRun(r) ==
  /\ run_pc[r] = "idle"
  /\ \A q \in Runs \ {r} : run_handle[q] = run_handle[r] => ~InFlight(q)
  /\ run_mem' = [run_mem EXCEPT ![r] = 0]
  /\ run_N' = [run_N EXCEPT ![r] = Len(MeasureTokens)]
  /\ run_pc' = [run_pc EXCEPT ![r] = "enter"]
  /\ UNCHANGED <<drvVars, smpVars, ldVars, heap, arena_buf, arena_buf_size,
                 run_handle, run_ctx0, run_log, run_kv, run_result>>

\* line 634, condition false
EvalNoGrow(r) ==
  /\ run_pc[r] = "enter"
  /\ ~MustGrow(run_mem[r], run_N[r], arena_buf_size)
  /\ run_pc' = [run_pc EXCEPT ![r] = "init"]
  /\ UNCHANGED <<drvVars, smpVars, ldVars, heap, arena_buf, arena_buf_size,
                 run_handle, run_N, run_mem, run_ctx0, run_log, run_kv, run_result>>

\* realloc(ptr, size) succeeds: the block grows where it is, or its contents
\* move to a new block and the old one is freed; realloc(nullptr, size)
\* allocates a new block.
ReallocOk(h, ptr, size) ==
  {[heap |-> Append(IF ptr = 0 THEN h ELSE [h EXCEPT ![ptr].live = FALSE],
                    [size |-> size, live |-> TRUE]),
    ptr |-> Len(h) + 1]}
  \cup (IF ptr = 0 THEN {}
        ELSE {[heap |-> [h EXCEPT ![ptr].size = size], ptr |-> ptr]})

\* lines 634-640, 648: the buffer is reallocated
EvalGrowOk(r) ==
  /\ run_pc[r] = "enter"
  /\ MustGrow(run_mem[r], run_N[r], arena_buf_size)
  /\ arena_buf_size' = BufSizeNew(run_mem[r], run_N[r])
  /\ \E res \in ReallocOk(heap, arena_buf, BufSizeNew(run_mem[r], run_N[r])) :
       /\ heap' = res.heap
       /\ arena_buf' = res.ptr
  /\ run_pc' = [run_pc EXCEPT ![r] = "init"]
  /\ UNCHANGED <<drvVars, smpVars, ldVars, run_handle, run_N, run_mem, run_ctx0,
                 run_log, run_kv, run_result>>

\* lines 634-645, 905-909: realloc returns nullptr (the old block stays
\* allocated); gptj_eval and gptj_generate return false
EvalGrowFail(r) ==
  /\ run_pc[r] = "enter"
  /\ MustGrow(run_mem[r], run_N[r], arena_buf_size)
  /\ arena_buf_size' = BufSizeNew(run_mem[r], run_N[r])
  /\ arena_buf' = 0
  /\ run_log' = [run_log EXCEPT ![r] = Append(@, CallRecord(run_N[r], FALSE))]
  /\ run_pc' = [run_pc EXCEPT ![r] = "returned"]
  /\ run_result' = [run_result EXCEPT ![r] = "false"]
  /\ UNCHANGED <<drvVars, smpVars, ldVars, heap, run_handle, run_N, run_mem,
                 run_ctx0, run_kv>>

\* An open ctx0 on the block b, which ggml owns when it allocated it itself.
Ctx0(b, size, owned) == [block |-> b, size |-> size, owned |-> owned, open |-> TRUE]

\* lines 648-654: ggml_init on the static buffer creates ctx0
EvalInit(r) ==
  /\ run_pc[r] = "init"
  /\ arena_buf # 0
  /\ run_ctx0' = [run_ctx0 EXCEPT ![r] = Ctx0(arena_buf, arena_buf_size, FALSE)]
  /\ run_pc' = [run_pc EXCEPT ![r] = "compute"]
  /\ UNCHANGED <<drvVars, smpVars, ldVars, heap, arena_buf, arena_buf_size,
                 run_handle, run_N, run_mem, run_log, run_kv, run_result>>

\* lines 648-654 with buf == nullptr: a null mem_buffer makes ggml_init
\* allocate mem_size bytes itself (as the loader asks for at line 436)
EvalInitOwn(r) ==
  /\ run_pc[r] = "init"
  /\ arena_buf = 0
  /\ heap' = Append(heap, [size |-> arena_buf_size, live |-> TRUE])
  /\ run_ctx0' = [run_ctx0 EXCEPT ![r] = Ctx0(Len(heap) + 1, arena_buf_size, TRUE)]
  /\ run_pc' = [run_pc EXCEPT ![r] = "compute"]
  /\ UNCHANGED <<drvVars, smpVars, ldVars, arena_buf, arena_buf_size,
                 run_handle, run_N, run_mem, run_log, run_kv, run_result>>

\* lines 648-656 with buf == nullptr and that allocation failing: the
\* result of ggml_init is not tested (as it is at line 440) and line 656
\* allocates from it; the process faults
EvalInitNull(r) ==
  /\ run_pc[r] = "init"
  /\ arena_buf = 0
  /\ run_ctx0' = [run_ctx0 EXCEPT ![r] = Ctx0(0, arena_buf_size, FALSE)]
  /\ run_pc' = [q \in Runs |->
                  IF run_pc[q] = "returned" THEN "returned" ELSE "crashed"]
  /\ UNCHANGED <<drvVars, smpVars, ldVars, heap, arena_buf, arena_buf_size,
                 run_handle, run_N, run_mem, run_log, run_kv, run_result>>

\* lines 656-831: the graph is built in ctx0 and computed; N cache positions
\* of the run's model are written, and mem_per_token is set when it was 0
EvalCompute(r) ==
  /\ run_pc[r] = "compute"
  /\ run_kv' = [run_kv EXCEPT ![r] = @ + run_N[r]]
  /\ run_log' = [run_log EXCEPT ![r] = Append(@, CallRecord(run_N[r], TRUE))]
  /\ IF run_mem[r] = 0
       THEN \E m \in MemPerTokenSet : run_mem' = [run_mem EXCEPT ![r] = m]
       ELSE UNCHANGED run_mem
  /\ run_pc' = [run_pc EXCEPT ![r] = "free"]
  /\ UNCHANGED <<drvVars, smpVars, ldVars, heap, arena_buf, arena_buf_size,
                 run_handle, run_N, run_ctx0, run_result>>

\* lines 833-835: ggml_free(ctx0) releases the block when ggml owns it;
\* return true
EvalFree(r) ==
  /\ run_pc[r] = "free"
  /\ heap' = IF run_ctx0[r].owned
               THEN [heap EXCEPT ![run_ctx0[r].block].live = FALSE]
               ELSE heap
  /\ run_ctx0' = [run_ctx0 EXCEPT ![r] = NoCtx]
  /\ run_pc' = [run_pc EXCEPT ![r] = "loop"]
  /\ UNCHANGED <<drvVars, smpVars, ldVars, arena_buf, arena_buf_size,
                 run_handle, run_N, run_mem, run_log, run_kv, run_result>>

\* lines 900-910: the loop calls the evaluator with N tokens
NextEval(r) ==
  /\ run_pc[r] = "loop"
  /\ Len(run_log[r]) <= MaxArenaCalls
  /\ \E N \in 1..MaxArenaN : run_N' = [run_N EXCEPT ![r] = N]
  /\ run_pc' = [run_pc EXCEPT ![r] = "enter"]
  /\ UNCHANGED <<drvVars, smpVars, ldVars, heap, arena_buf, arena_buf_size,
                 run_handle, run_mem, run_ctx0, run_log, run_kv, run_result>>

\* lines 952-966: gptj_generate returns true
RunReturn(r) ==
  /\ run_pc[r] = "loop"
  /\ run_pc' = [run_pc EXCEPT ![r] = "returned"]
  /\ run_result' = [run_result EXCEPT ![r] = "true"]
  /\ UNCHANGED <<drvVars, smpVars, ldVars, heap, arena_buf, arena_buf_size,
                 run_handle, run_N, run_mem, run_ctx0, run_log, run_kv>>

NextArena ==
  \E r \in Runs :
    \/ StartRun(r)
    \/ EvalNoGrow(r)
    \/ EvalGrowOk(r)
    \/ EvalGrowFail(r)
    \/ EvalInit(r)
    \/ EvalInitOwn(r)
    \/ EvalInitNull(r)
    \/ EvalCompute(r)
    \/ EvalFree(r)
    \/ NextEval(r)
    \/ RunReturn(r)

SpecArena == InitArena /\ [][NextArena]_vars

----------------------------------------------------------------------------
(* The claims about gptj_generate (checked under Spec) *)

\* min(n_predict, n_ctx - P) as the caller means it, never below zero
DecodeCap == Max(0, Min(n_predict_arg, n_ctx - P))

IsPrefillEval(r) == r.prefill
IsDecodeEval(r) == ~r.measure /\ ~r.prefill
IsNotEot(id) == id # END_OF_TEXT

RECURSIVE SumLens(_)
SumLens(log) == IF log = <<>> THEN 0 ELSE Len(Head(log).toks) + SumLens(Tail(log))

PrefillEvals == SelectSeq(eval_log, IsPrefillEval)
DecodeEvals == SelectSeq(eval_log, IsDecodeEval)

\* C1: one gptj_generate call samples at most n_ctx - P times and at most
\* n_predict times, for every prompt and every n_predict, and the cap is
\* resolved from P before any prompt token reaches the evaluator.
C1_DecodeStepsCapped ==
  /\ Len(sampled) <= DecodeCap
  /\ (\E k \in 1..Len(eval_log) : ~eval_log[k].measure) =>
        n_predict = ResolvedPredict(n_predict_arg, n_ctx, P)

\* C2: every evaluator call of a run, the measurement call included, has
\* n_past + N <= n_ctx, so it addresses only the n_ctx cache slots of a layer.
C2_EvalWithinContext ==
  \A k \in 1..Len(eval_log) :
    eval_log[k].n_past + Len(eval_log[k].toks) <= n_ctx

\* C3: once the callback has returned false the call has returned true and
\* nothing follows: no evaluator call, no sample, no callback invocation.
C3_CallbackFalseStops ==
  cb_stop => (pc = "done" /\ result = "true" /\ ~ENABLED Next)

C3_Witness ==
  /\ cb_stop /\ pc = "done" /\ result = "true"
  /\ Len(cb_log) >= 2 /\ Len(DecodeEvals) >= 1

FirstSampleMoment ==
  \/ pc = "branch" /\ i >= P /\ sampled = <<>>
  \/ pc = "emit" /\ ~processing_input /\ Len(sampled) = 1

C5_PastEqualsPrompt ==
  FirstSampleMoment => (n_past = P /\ SumLens(PrefillEvals) = P)

C5_Witness ==
  /\ pc = "emit" /\ ~processing_input /\ Len(sampled) = 1
  /\ P = 3 /\ n_batch = 1 /\ Len(PrefillEvals) = 2 /\ n_past = 3

C10_PrefillBatchAtMostNBatch ==
  \A k \in 1..Len(eval_log) :
    (eval_log[k].prefill /\ n_batch >= 1) => Len(eval_log[k].toks) <= n_batch

IsRealEval(r) == ~r.measure
RealEvals == SelectSeq(eval_log, IsRealEval)
RangeEnd(r) == r.n_past + Len(r.toks)

C11_TopKWithinVocab ==
  \A k \in 1..Len(sample_log) : sample_log[k].top_k <= sample_log[k].n_logits

----------------------------------------------------------------------------
(* The claim about gptj_load_model (checked under SpecLoad) *)

\* C7: a file whose first four bytes are not the magic constant makes the
\* load fail with no handle, before the ggml context, any weight tensor or
\* the KV cache has been allocated.
C7_BadMagicFailsEarly ==
  (l_pc \notin {"start", "magic"} /\ l_err # "open" /\ magic # GGML_MAGIC) =>
     /\ l_pc = "returned" /\ l_err = "magic"
     /\ handle = "null" /\ ctx_obj = "deleted"
     /\ model_ctx = "null" /\ tensors = {} /\ ~memory_kv /\ copied = {}

C7_Witness ==
  l_pc = "returned" /\ l_err = "magic" /\ magic # GGML_MAGIC /\ handle = "null"

\* The record agrees with the tensor pre-allocated under its name.
RecordMatches(r) ==
  r.name \in TensorNames /\ r.nelements_ok /\ r.shape_ok /\ r.size_ok

\* C13: the load fails at the first tensor record whose name is not in the
\* registry or whose element count, first two dimensions or byte size differ
\* from the pre-allocated tensor: gptj_load_model returns no handle, and only
\* payloads of matching records were ever copied into a tensor.
C13_BadRecordFailsLoad ==
  /\ \A k \in 1..Len(payload_read) : RecordMatches(payload_read[k])
  /\ copied = {payload_read[k].name : k \in 1..Len(payload_read)}
  /\ (rec # NoRecord /\ ~RecordMatches(rec)) =>
        /\ l_pc = "returned" /\ l_err = "record"
        /\ handle = "null" /\ ctx_obj = "deleted"
        /\ ~ENABLED NextLoad
  /\ (rec # NoRecord /\ RecordMatches(rec)) =>
        (payload_read # <<>> /\ payload_read[Len(payload_read)] = rec
           /\ l_err = "none")

C13_Witness ==
  /\ l_pc = "returned" /\ l_err = "record" /\ handle = "null"
  /\ Len(payload_read) = 1 /\ copied = {"lm_head.bias"}
  /\ rec.name = "lm_head.bias" /\ ~rec.size_ok /\ rec.nelements_ok /\ rec.shape_ok

----------------------------------------------------------------------------
(* The claim about gpt_tokenize (checked under SpecLoad) *)

\* C9 as claimed: for every id of the loaded vocabulary, tokenizing the
\* text of the id gives a non-empty sequence that starts with the id.
C9_RoundTripFirstId ==
  l_pc = "tokenized" =>
    \A id \in DOMAIN id_to_token :
      t_text = id_to_token[id] => (t_tokens # <<>> /\ t_tokens[1] = id)

\* C9 as amended: for every id of the loaded vocabulary whose text is not
\* empty, is a single word of the splitting pattern, and is not stored again
\* under a later id (token_to_id maps the text back to the id), tokenizing
\* the text of the id gives exactly that id.
C9_RoundTripSingleWord ==
  l_pc = "tokenized" =>
    \A id \in DOMAIN id_to_token :
      ( /\ t_text = id_to_token[id]
        /\ t_text # <<>>
        /\ SplitWords(t_text) = <<t_text>>
        /\ token_to_id[t_text] = id ) => t_tokens = <<id>>

C9_Witness ==
  /\ l_pc = "tokenized"
  /\ id_to_token = (0 :> <<"a">>) @@ (1 :> <<"a", "b">>)
  /\ t_text = <<"a", "b">> /\ t_tokens = <<1>>

----------------------------------------------------------------------------
(* The claim about gpt_sample_top_k_top_p (checked under SpecSample) *)

MaxOf(l) == CHOOSE m \in {l[k] : k \in 1..Len(l)} : \A k \in 1..Len(l) : l[k] <= m
ReturnsArgmax ==
  s_id \in 0..(Len(s_logits) - 1) /\ s_logits[s_id + 1] = MaxOf(s_logits)

\* C8 as claimed: with top_k = 1 the sampler returns the id of the highest
\* score, for every score vector, every temperature and every top_p.
C8_TopOneIsArgmax ==
  (s_pc = "done" /\ s_top_k = 1) => ReturnsArgmax

\* C8 as amended: with top_k = 1 the sampler returns an id of the highest
\* score for every score vector, every top_p and every temperature > 0.
C8_TopOneIsArgmaxPositiveTemp ==
  (s_pc = "done" /\ s_top_k = 1 /\ s_temp[1] > 0) => ReturnsArgmax

C8_Witness ==
  /\ s_pc = "done" /\ s_top_k = 1 /\ s_temp = <<1, 2>> /\ s_top_p = 900
  /\ s_logits = <<0, 2, 1>> /\ s_id = 1

----------------------------------------------------------------------------
(* The claims about the scratch buffer (checked under SpecArena) *)

RECURSIVE TokensOk(_)
TokensOk(log) ==
  IF log = <<>> THEN 0
  ELSE (IF Head(log).ok THEN Head(log).N ELSE 0) + TokensOk(Tail(log))

\* The arena of an open ctx0 is a live block of the recorded capacity.
ArenaValid(c) ==
  /\ c.block # 0
  /\ heap[c.block].live
  /\ heap[c.block].size = c.size

\* C14: when growing the scratch buffer fails, the evaluator call and the
\* enclosing gptj_generate return false, the call writes nothing to the
\* cache, and a later gptj_generate call on the model runs its evaluator
\* calls on a valid buffer of the capacity recorded for it.
C14_GrowthFailureLeavesModelUsable ==
  \A r \in Runs :
    /\ (run_log[r] # <<>> /\ ~run_log[r][Len(run_log[r])].ok) =>
          (run_pc[r] = "returned" /\ run_result[r] = "false")
    /\ run_kv[r] = TokensOk(run_log[r])
    /\ (run_handle[1] = run_handle[2] /\ run_ctx0[r].open) => ArenaValid(run_ctx0[r])

\* C15: two gptj_generate calls running at the same time on two different
\* handles never have evaluator calls that use the same memory, nor does one
\* resize or release memory the other is using.
C15_RunsShareNoMemory ==
  run_handle[1] # run_handle[2] =>
    \A r \in Runs :
      run_ctx0[r].open =>
        /\ ArenaValid(run_ctx0[r])
        /\ \A q \in Runs \ {r} :
             run_ctx0[q].open => run_ctx0[q].block # run_ctx0[r].block

====
